---- MODULE Spec2Model ----
(***************************************************************************)
(* Model of the video-generation service: the Flask handlers of            *)
(* src/api/app.py (job records in video_work/<job_id>/job.json and the     *)
(* job's artifact files) and the Kling submit/poll/download routine of     *)
(* src/api/video_generation.py.                                            *)
(*                                                                         *)
(* Spec      the request handlers, one request in service at a time        *)
(*           (gunicorn.conf.py: workers = 1, threads = 1); the call to     *)
(*           generate_video_from_image is one step whose result is one of  *)
(*           GenerateOutcomes.                                             *)
(* PollSpec  generate_video_from_image statement by statement.             *)
(* PreviewSpec  the generate-video handler with that routine in line.      *)
(* ChunkSpec    _split_script_into_chunks applied to a script and a        *)
(*              budget.                                                    *)
(* SpeechSpec   convert_script_to_speech: the single request of a short    *)
(*              script, or the chunk requests, the concat list, ffmpeg and *)
(*              the cleanup of a long one.                                 *)
(***************************************************************************)
EXTENDS Integers, Sequences, FiniteSets, TLC

\* ------------------------------------------------------------------------
\* Bounds of the model
\* ------------------------------------------------------------------------
\* job ids that uuid4()[:8] can return
MaxJobs == 1
\* longest list of result videos in a status response
MaxVideos == 2
\* most items (runs of letters, separator characters) in a script
MaxItems == 5
\* the small max_chars tried for _split_script_into_chunks alone
SmallBudget == 3
\* longest media duration tried, in tenths of a second
MaxDuration == 110
\* most buffer flushes of one json.dump before the file is closed
MaxFlushes == 2
\* add_commentary requests for one job served at the same time
MaxThreads == 3

\* ------------------------------------------------------------------------
\* Program constants
\* ------------------------------------------------------------------------
workers == 1
threads == 1
max_attempts == 120
\* seconds: "exp" of the token after it is made, time.sleep(5), timeout=30
token_lifetime == 1800
poll_sleep == 5
request_timeout == 30

JobIds == 1..MaxJobs
\* job_id of a request that carries none
NoJobId == 0

ArtifactNames == {"preview.mp4", "commentary.mp3", "final_video.mp4",
                  "script.txt", "metadata.json"}

\* request inputs; an image_url request is an image_base64 request that
\* writes no upload
ImageInputs == {"none", "image_base64"}
MotionInputs == {"", "slow pan"}
ScriptInputs == {"", "script"}
VoiceInputs == {"onyx"}
DurationInputs == {5, 7, 10}

\* results of generate_video_from_image: the returned path, or the exception
GenerateOutcomes == {"ok", "Kling API error", "Kling generation failed",
                     "Video generation timed out", "Failed to download video",
                     "other exception"}
MergeOutcomes == {"ok", "probe failed", "ffmpeg failed"}
SaveOutcomes == {"ok", "script write failed"}

VARIABLES
    pipeline,        \* app.py global: "None" or "pipeline"
    pipeline_error,  \* app.py global: "None" or "error"
    jobs,            \* job_id -> content of video_work/<job_id>/job.json
    dirs,            \* job directories that exist
    files,           \* job_id -> artifact files in the job directory
    pc,              \* position of the request in service ("idle": none)
    req,             \* local variables of the request in service
    resp,            \* the last response sent
    calls,           \* external calls and upload writes of the last request
    ppc,             \* generate_video_from_image: position
    attempt,         \* generate_video_from_image: attempt
    video_url,       \* generate_video_from_image: video_url ("None" unset)
    result,          \* generate_video_from_image: return value or exception
    error_msg,       \* message carried by the exception
    status_requests, \* status GETs sent in this call
    downloads,       \* download GETs sent in this call
    asset_written,   \* the asset file was written in this call
    submit_rejected, \* the submission response was non-200 or code # 0
    last_status,     \* kind of the latest status response in this call
    succeed_seen,    \* a status response of this call reported succeed
    succeed_videos,  \* videos of the first status response that did
    video_at,        \* status request that set video_url (0: none)
    failed_at,       \* status request that reported failed (0: none)
    failed_msg,      \* task_status_msg of that response
    result_videos,   \* videos of the response that set video_url
    download_url,    \* url of the download GET ("None": none sent)
    download_status, \* status_code of the download response (0: none)
    elevenlabs_api_key, \* self.elevenlabs_api_key is set
    script_text,     \* convert_script_to_speech: script
    chunk_budget,    \* _split_script_into_chunks: max_chars (0: not called)
    chunk_list,      \* the chunks returned
    spc,             \* convert_script_to_speech: position
    temp_files,      \* temp_files: the paths appended
    list_file,       \* the lines written to <stem>_filelist.txt
    disk,            \* files in output_path.parent, each with its content
    tts_requests,    \* TTS requests sent in this call: text and answer
    speech_error,    \* the exception the call raised ("None": none)
    ffmpeg_runs,     \* ffmpeg concat runs in this call
    call_args,       \* a function called on its own: its name and arguments
    call_result,     \* what that call returned ("None": not yet)
    job_file,        \* one job.json as the file system holds it
    load_result,     \* reading handler -> what its json.load gave
    thread_pc,       \* add_commentary request -> its position, threads apart
    vc_pc,           \* process_video: position
    vc_files,        \* process_video: the stage artifacts on disk
    vc_calls         \* process_video: external calls of this run, in order

lifeVars == <<pipeline, pipeline_error, jobs, dirs, files, pc, req, resp, calls>>
pollVars == <<ppc, attempt, video_url, result, error_msg, status_requests,
              downloads, asset_written, submit_rejected, last_status,
              succeed_seen, succeed_videos, video_at, failed_at, failed_msg,
              result_videos, download_url, download_status>>
speechVars == <<elevenlabs_api_key, script_text, chunk_budget, chunk_list, spc, temp_files,
                list_file, disk, tts_requests, speech_error, ffmpeg_runs>>
fnVars == <<call_args, call_result>>
recordVars == <<job_file, load_result, thread_pc>>
commentaryVars == <<vc_pc, vc_files, vc_calls>>
libVars == <<speechVars, fnVars, recordVars, commentaryVars>>
vars == <<lifeVars, pollVars, speechVars, fnVars, recordVars, commentaryVars>>

\* ------------------------------------------------------------------------
\* Job records (job.json)
\* ------------------------------------------------------------------------
\* no job.json in the directory
NoRecord == [status |-> "no job.json", image_path |-> "", motion_prompt |-> "",
             duration |-> 0, preview_path |-> "", script |-> "", voice |-> "",
             final_video |-> "", audio_path |-> "", metadata |-> ""]

NoReq == [op |-> "none", job_id |-> NoJobId, image_path |-> "",
          motion_prompt |-> "", duration |-> 0, script |-> "", voice |-> "",
          job_meta |-> NoRecord, video_path |-> ""]

Response(op, code, error, job_id, status) ==
    [op |-> op, code |-> code, error |-> error, job_id |-> job_id, status |-> status]

\* no response yet: the request is in service
NoResponse == Response("none", 0, "", NoJobId, "")

\* image_path after the image was taken from the request: the URL given, or
\* the path of the upload written; the handlers never look at its value
ImagePath(image) == "image"

\* the request writes its image under uploads/ before it is validated further
UploadWrites(image) == IF image = "image_base64" THEN {"upload write"} ELSE {}

\* ------------------------------------------------------------------------
\* Request handling (src/api/app.py)
\* ------------------------------------------------------------------------
\* requests in service
InService == IF pc = "idle" THEN 0 ELSE 1

\* a request is taken up only by a free worker thread
WorkerFree == InService < workers * threads

\* mutant: construction is attempted again after it failed
get_pipeline_Retries(constructs) ==
    IF pipeline = "None"
    THEN IF constructs THEN <<"pipeline", "None">> ELSE <<"None", "error">>
    ELSE <<pipeline, pipeline_error>>

\* get_pipeline(): the globals after the call; constructs tells whether
\* VideoGenerationPipeline() succeeds when it is attempted
get_pipeline(constructs) ==
    IF pipeline = "None" /\ pipeline_error = "None"
    THEN IF constructs THEN <<"pipeline", "None">> ELSE <<"None", "error">>
    ELSE <<pipeline, pipeline_error>>

\* whether VideoGenerationPipeline() succeeds is open only while neither
\* global is set
Constructs == IF pipeline = "None" /\ pipeline_error = "None" THEN BOOLEAN ELSE {TRUE}

\* str(uuid.uuid4())[:8]: any id, one in use included; mkdir(exist_ok=True)
\* accepts a directory that exists
NewJobIds == JobIds

\* mutant: any duration is let through
ValidDuration_Any(duration) == TRUE

\* duration not in [5, 10] is rejected
ValidDuration(duration) == duration \in {5, 10}

\* mutant: only a finished job is turned away
StatusAllowsCommentary_NotComplete(status) == status # "complete"

\* add_commentary goes on only from this status
StatusAllowsCommentary(status) == status = "preview_ready"

\* a handler returns before it touched the job store
Reject(op, code, error, job_id, status, written) ==
    /\ resp' = Response(op, code, error, job_id, status)
    /\ calls' = written
    /\ pc' = "idle"
    /\ req' = NoReq
    /\ UNCHANGED <<jobs, dirs, files>>

\* an exception reaches the handler's except clause: 500 with str(e); the
\* clause writes nothing
Except(error) ==
    /\ resp' = Response(req.op, 500, error,
                        IF req.op = "add_commentary" THEN req.job_id ELSE NoJobId, "")
    /\ pc' = "idle"
    /\ req' = NoReq

\* POST /api/generate-video up to the first write of job.json
generate_video_preview(image, motion_prompt, duration, constructs) ==
    LET p == get_pipeline(constructs)
        op == "generate_video_preview"
        job_meta == [NoRecord EXCEPT !.status = "generating_video",
                                     !.image_path = ImagePath(image),
                                     !.motion_prompt = motion_prompt,
                                     !.duration = duration]
    IN  /\ pc = "idle"
        /\ WorkerFree
        /\ pipeline' = p[1]
        /\ pipeline_error' = p[2]
        /\ IF p[1] = "None"
           THEN Reject(op, 500, "Pipeline not available", NoJobId, "", {})
           ELSE IF image = "none"
           THEN Reject(op, 400, "No image provided", NoJobId, "", {})
           ELSE IF motion_prompt = ""
           THEN Reject(op, 400, "No motion_prompt provided", NoJobId, "", UploadWrites(image))
           ELSE IF ~ValidDuration(duration)
           THEN Reject(op, 400, "Duration must be 5 or 10 seconds", NoJobId, "", UploadWrites(image))
           ELSE \E job_id \in NewJobIds :
                /\ dirs' = dirs \cup {job_id}
                /\ jobs' = [jobs EXCEPT ![job_id] = job_meta]
                /\ pc' = "gv_generate"
                /\ req' = [NoReq EXCEPT !.op = op, !.job_id = job_id,
                                        !.image_path = ImagePath(image),
                                        !.motion_prompt = motion_prompt,
                                        !.duration = duration,
                                        !.job_meta = job_meta]
                /\ calls' = UploadWrites(image)
                /\ resp' = NoResponse
                /\ UNCHANGED files
        /\ UNCHANGED <<pollVars, libVars>>

\* pipe.generate_video_from_image(...) called by a handler at position at
generate_stage(at, next, outcome) ==
    /\ pc = at
    /\ calls' = calls \cup {"kling"}
    /\ IF outcome = "ok"
       THEN /\ pc' = next
            /\ req' = [req EXCEPT !.video_path = "kling_video"]
            /\ UNCHANGED resp
       ELSE Except(outcome)
    /\ UNCHANGED <<pipeline, pipeline_error, jobs, dirs, files>>
    /\ UNCHANGED <<pollVars, libVars>>

gv_generate(outcome) == generate_stage("gv_generate", "gv_copy", outcome)

\* shutil.copy to preview.mp4, then job.json rewritten as preview_ready
gv_copy(copied) ==
    LET job_meta == [req.job_meta EXCEPT !.status = "preview_ready",
                                         !.preview_path = "preview.mp4"]
    IN  /\ pc = "gv_copy"
        /\ IF copied
           THEN /\ files' = [files EXCEPT ![req.job_id] = @ \cup {"preview.mp4"}]
                /\ jobs' = [jobs EXCEPT ![req.job_id] = job_meta]
                /\ resp' = Response(req.op, 200, "", req.job_id, "preview_ready")
                /\ pc' = "idle"
                /\ req' = NoReq
           ELSE /\ Except("copy failed")
                /\ UNCHANGED <<files, jobs>>
        /\ UNCHANGED <<pipeline, pipeline_error, dirs, calls>>
        /\ UNCHANGED <<pollVars, libVars>>

\* mutant: the error does not name the status
NotReady_StatusUnnamed(job_id, status) ==
    Reject("add_commentary", 400, "Job not ready for commentary", job_id, "", {})

\* 400 "Job not ready for commentary. Status: <status>"
NotReady(job_id, status) ==
    Reject("add_commentary", 400, "Job not ready for commentary", job_id, status, {})

\* POST /api/add-commentary up to the write of adding_commentary
add_commentary(job_id, script, voice, constructs) ==
    LET p == get_pipeline(constructs)
        op == "add_commentary"
        loaded == jobs[job_id]
        job_meta == [loaded EXCEPT !.status = "adding_commentary",
                                   !.script = script, !.voice = voice]
    IN  /\ pc = "idle"
        /\ WorkerFree
        /\ pipeline' = p[1]
        /\ pipeline_error' = p[2]
        /\ IF p[1] = "None"
           THEN Reject(op, 500, "Pipeline not available", job_id, "", {})
           ELSE IF job_id = NoJobId
           THEN Reject(op, 400, "No job_id provided", job_id, "", {})
           ELSE IF script = ""
           THEN Reject(op, 400, "No script provided", job_id, "", {})
           ELSE IF loaded = NoRecord
           THEN Reject(op, 404, "Job not found", job_id, "", {})
           ELSE IF ~StatusAllowsCommentary(loaded.status)
           THEN NotReady(job_id, loaded.status)
           ELSE IF loaded.preview_path = "" \/ "preview.mp4" \notin files[job_id]
           THEN Reject(op, 404, "Preview video not found", job_id, "", {})
           ELSE /\ jobs' = [jobs EXCEPT ![job_id] = job_meta]
                /\ pc' = "ac_speech"
                /\ req' = [NoReq EXCEPT !.op = op, !.job_id = job_id,
                                        !.script = script, !.voice = voice,
                                        !.job_meta = job_meta]
                /\ calls' = {}
                /\ resp' = NoResponse
                /\ UNCHANGED <<dirs, files>>
        /\ UNCHANGED <<pollVars, libVars>>

\* pipe.convert_script_to_speech(script, job_dir/commentary.mp3, voice)
speech_stage(at, next, synthesized) ==
    /\ pc = at
    /\ calls' = calls \cup {"tts"}
    /\ IF synthesized
       THEN /\ files' = [files EXCEPT ![req.job_id] = @ \cup {"commentary.mp3"}]
            /\ pc' = next
            /\ UNCHANGED <<req, resp>>
       ELSE /\ Except("tts failed")
            /\ UNCHANGED files
    /\ UNCHANGED <<pipeline, pipeline_error, jobs, dirs>>
    /\ UNCHANGED <<pollVars, libVars>>

\* mutant: the handler goes on to the next stage when the merge failed
merge_stage_FailureIgnored(at, next, outcome) ==
    /\ pc = at
    /\ calls' = calls \cup (IF outcome = "probe failed" THEN {"probe"} ELSE {"probe", "ffmpeg"})
    /\ files' = [files EXCEPT ![req.job_id] =
                    @ \cup (IF outcome = "ok" THEN {"final_video.mp4"} ELSE {})]
    /\ pc' = next
    /\ UNCHANGED <<req, resp>>
    /\ UNCHANGED <<pipeline, pipeline_error, jobs, dirs>>
    /\ UNCHANGED <<pollVars, libVars>>

\* pipe.merge_video_audio(video, audio, job_dir/final_video.mp4): two
\* ffprobe calls, then ffmpeg
merge_stage(at, next, outcome) ==
    /\ pc = at
    /\ calls' = calls \cup (IF outcome = "probe failed" THEN {"probe"} ELSE {"probe", "ffmpeg"})
    /\ IF outcome = "ok"
       THEN /\ files' = [files EXCEPT ![req.job_id] = @ \cup {"final_video.mp4"}]
            /\ pc' = next
            /\ UNCHANGED <<req, resp>>
       ELSE /\ Except(outcome)
            /\ UNCHANGED files
    /\ UNCHANGED <<pipeline, pipeline_error, jobs, dirs>>
    /\ UNCHANGED <<pollVars, libVars>>

\* pipe.generate_youtube_metadata(script)
metadata_stage(at, next, completed) ==
    /\ pc = at
    /\ calls' = calls \cup {"completion"}
    /\ IF completed
       THEN /\ pc' = next
            /\ UNCHANGED <<req, resp>>
       ELSE Except("completion failed")
    /\ UNCHANGED <<pipeline, pipeline_error, jobs, dirs, files>>
    /\ UNCHANGED <<pollVars, libVars>>

\* mutant: metadata.json is not written
SavedFiles_ScriptOnly(outcome) ==
    IF outcome = "ok" THEN {"script.txt"} ELSE {}

\* script.txt and metadata.json written in that order
SavedFiles(outcome) ==
    IF outcome = "ok" THEN {"script.txt", "metadata.json"} ELSE {}

ac_speech(synthesized) == speech_stage("ac_speech", "ac_merge", synthesized)

ac_merge(outcome) == merge_stage("ac_merge", "ac_metadata", outcome)

ac_metadata(completed) == metadata_stage("ac_metadata", "ac_save", completed)

\* script.txt, metadata.json, then job.json rewritten as complete
ac_save(outcome) ==
    LET job_meta == [req.job_meta EXCEPT !.status = "complete",
                                         !.final_video = "final_video.mp4",
                                         !.audio_path = "commentary.mp3",
                                         !.metadata = "metadata"]
    IN  /\ pc = "ac_save"
        /\ files' = [files EXCEPT ![req.job_id] = @ \cup SavedFiles(outcome)]
        /\ IF outcome = "ok"
           THEN /\ jobs' = [jobs EXCEPT ![req.job_id] = job_meta]
                /\ resp' = Response(req.op, 200, "", req.job_id, "complete")
                /\ pc' = "idle"
                /\ req' = NoReq
           ELSE /\ Except(outcome)
                /\ UNCHANGED jobs
        /\ UNCHANGED <<pipeline, pipeline_error, dirs, calls>>
        /\ UNCHANGED <<pollVars, libVars>>

\* POST /api/generate (legacy) up to process() creating the job directory;
\* process() writes no job.json
generate_full(image, script, motion_prompt, voice, duration, constructs) ==
    LET p == get_pipeline(constructs)
        op == "generate_full"
    IN  /\ pc = "idle"
        /\ WorkerFree
        /\ pipeline' = p[1]
        /\ pipeline_error' = p[2]
        /\ IF p[1] = "None"
           THEN Reject(op, 500, "Pipeline not available", NoJobId, "", {})
           ELSE IF image = "none"
           THEN Reject(op, 400, "No image provided", NoJobId, "", {})
           ELSE IF script = ""
           THEN Reject(op, 400, "No script provided", NoJobId, "", UploadWrites(image))
           ELSE IF ~ValidDuration(duration)
           THEN Reject(op, 400, "Duration must be 5 or 10 seconds", NoJobId, "", UploadWrites(image))
           ELSE \E job_id \in NewJobIds :
                /\ dirs' = dirs \cup {job_id}
                /\ pc' = "gf_motion"
                /\ req' = [NoReq EXCEPT !.op = op, !.job_id = job_id,
                                        !.image_path = ImagePath(image),
                                        !.motion_prompt = motion_prompt,
                                        !.duration = duration,
                                        !.script = script, !.voice = voice]
                /\ calls' = UploadWrites(image)
                /\ resp' = NoResponse
                /\ UNCHANGED <<jobs, files>>
        /\ UNCHANGED <<pollVars, libVars>>

\* mutant: process() goes on with the motion prompt it was given
gf_motion_NotDerived(completed) ==
    /\ pc = "gf_motion"
    /\ pc' = "gf_generate"
    /\ UNCHANGED <<req, resp, calls>>
    /\ UNCHANGED <<pipeline, pipeline_error, jobs, dirs, files>>
    /\ UNCHANGED <<pollVars, libVars>>

\* process() step 1: _generate_motion_prompt(script) when none was given
gf_motion(completed) ==
    /\ pc = "gf_motion"
    /\ IF req.motion_prompt # ""
       THEN /\ pc' = "gf_generate"
            /\ UNCHANGED <<req, resp, calls>>
       ELSE /\ calls' = calls \cup {"completion"}
            /\ IF completed
               THEN /\ pc' = "gf_generate"
                    /\ req' = [req EXCEPT !.motion_prompt = "generated prompt"]
                    /\ UNCHANGED resp
               ELSE Except("completion failed")
    /\ UNCHANGED <<pipeline, pipeline_error, jobs, dirs, files>>
    /\ UNCHANGED <<pollVars, libVars>>

gf_generate(outcome) == generate_stage("gf_generate", "gf_speech", outcome)

gf_speech(synthesized) == speech_stage("gf_speech", "gf_merge", synthesized)

gf_merge(outcome) == merge_stage("gf_merge", "gf_metadata", outcome)

gf_metadata(completed) == metadata_stage("gf_metadata", "gf_save", completed)

\* process() writes script.txt and metadata.json and returns
gf_save(outcome) ==
    /\ pc = "gf_save"
    /\ files' = [files EXCEPT ![req.job_id] = @ \cup SavedFiles(outcome)]
    /\ IF outcome = "ok"
       THEN /\ resp' = Response(req.op, 200, "", req.job_id, "")
            /\ pc' = "idle"
            /\ req' = NoReq
       ELSE Except(outcome)
    /\ UNCHANGED <<pipeline, pipeline_error, jobs, dirs, calls>>
    /\ UNCHANGED <<pollVars, libVars>>

\* a handler that only reads the job store
ReadOnly(response) ==
    /\ pc = "idle"
    /\ WorkerFree
    /\ resp' = response
    /\ calls' = {}
    /\ UNCHANGED <<pipeline, pipeline_error, jobs, dirs, files, pc, req>>
    /\ UNCHANGED <<pollVars, libVars>>

\* mutant: the preview is served only once the final video is there
get_preview_NeedsFinalVideo(job_id) ==
    ReadOnly(IF "final_video.mp4" \in files[job_id]
             THEN Response("get_preview", 200, "", job_id, "")
             ELSE Response("get_preview", 404, "Preview not found", job_id, ""))

\* GET /api/preview/<job_id>
get_preview(job_id) ==
    ReadOnly(IF "preview.mp4" \in files[job_id]
             THEN Response("get_preview", 200, "", job_id, "")
             ELSE Response("get_preview", 404, "Preview not found", job_id, ""))

\* GET /api/job/<job_id>/status
get_job_status(job_id) ==
    ReadOnly(IF jobs[job_id] # NoRecord
             THEN Response("get_job_status", 200, "", job_id, jobs[job_id].status)
             ELSE Response("get_job_status", 404, "Job not found", job_id, ""))

\* the job ids GET /api/jobs returns
ListedJobs == {j \in dirs : jobs[j] # NoRecord}

\* GET /api/jobs
list_jobs == ReadOnly(Response("list_jobs", 200, "", NoJobId, ""))

\* GET /api/download/<job_id>
download_video(job_id) ==
    ReadOnly(IF "final_video.mp4" \in files[job_id]
             THEN Response("download_video", 200, "", job_id, "")
             ELSE Response("download_video", 404, "Video not found", job_id, ""))

\* GET /api/health
health(constructs) ==
    LET p == get_pipeline(constructs)
    IN  /\ pc = "idle"
        /\ WorkerFree
        /\ pipeline' = p[1]
        /\ pipeline_error' = p[2]
        /\ resp' = Response("health", 200, "", NoJobId,
                            IF p[1] = "None" THEN "degraded" ELSE "healthy")
        /\ calls' = {}
        /\ UNCHANGED <<jobs, dirs, files, pc, req>>
        /\ UNCHANGED <<pollVars, libVars>>

\* ------------------------------------------------------------------------
\* Initial state and the handlers' specification
\* ------------------------------------------------------------------------
ServiceInit ==
    /\ pipeline = "None"
    /\ pipeline_error = "None"
    /\ jobs = [j \in JobIds |-> NoRecord]
    /\ dirs = {}
    /\ files = [j \in JobIds |-> {}]
    /\ pc = "idle"
    /\ req = NoReq
    /\ resp = NoResponse
    /\ calls = {}
    /\ ppc = "idle"
    /\ attempt = 0
    /\ video_url = "None"
    /\ result = "None"
    /\ error_msg = ""
    /\ status_requests = 0
    /\ downloads = 0
    /\ asset_written = FALSE
    /\ submit_rejected = FALSE
    /\ last_status = "none"
    /\ succeed_seen = FALSE
    /\ succeed_videos = <<>>
    /\ video_at = 0
    /\ failed_at = 0
    /\ failed_msg = ""
    /\ result_videos = <<>>
    /\ download_url = "None"
    /\ download_status = 0

\* no call of convert_script_to_speech is under way
NoSpeech ==
    /\ elevenlabs_api_key = TRUE
    /\ script_text = <<>>
    /\ chunk_budget = 0
    /\ chunk_list = <<>>
    /\ spc = "idle"
    /\ temp_files = <<>>
    /\ list_file = <<>>
    /\ disk = {}
    /\ tts_requests = <<>>
    /\ speech_error = "None"
    /\ ffmpeg_runs = 0

\* no function is called on its own
NoCall ==
    /\ call_args = [fn |-> "none"]
    /\ call_result = "None"
    /\ vc_pc = "not called"
    /\ vc_files = {}
    /\ vc_calls = <<>>

\* the handlers that load job.json
Readers == {"get_job_status", "list_jobs", "add_commentary"}

\* job.json is not there and nothing has loaded it
NoRecordIO ==
    /\ job_file = [record |-> "no job.json", flushed |-> 0, open |-> FALSE]
    /\ load_result = [r \in Readers |-> "not loaded"]
    /\ thread_pc = [t \in 1..MaxThreads |-> "not sent"]

Init == ServiceInit /\ NoSpeech /\ NoCall /\ NoRecordIO

Next ==
    \/ \E image \in ImageInputs, motion_prompt \in MotionInputs,
          duration \in DurationInputs, constructs \in Constructs :
          generate_video_preview(image, motion_prompt, duration, constructs)
    \/ \E outcome \in GenerateOutcomes : gv_generate(outcome)
    \/ \E copied \in BOOLEAN : gv_copy(copied)
    \/ \E job_id \in JobIds \cup {NoJobId}, script \in ScriptInputs,
          voice \in VoiceInputs, constructs \in Constructs :
          add_commentary(job_id, script, voice, constructs)
    \/ \E synthesized \in BOOLEAN : ac_speech(synthesized)
    \/ \E outcome \in MergeOutcomes : ac_merge(outcome)
    \/ \E completed \in BOOLEAN : ac_metadata(completed)
    \/ \E outcome \in SaveOutcomes : ac_save(outcome)
    \/ \E image \in ImageInputs, script \in ScriptInputs,
          motion_prompt \in MotionInputs, voice \in VoiceInputs,
          duration \in DurationInputs, constructs \in Constructs :
          generate_full(image, script, motion_prompt, voice, duration, constructs)
    \/ \E completed \in BOOLEAN : gf_motion(completed)
    \/ \E outcome \in GenerateOutcomes : gf_generate(outcome)
    \/ \E synthesized \in BOOLEAN : gf_speech(synthesized)
    \/ \E outcome \in MergeOutcomes : gf_merge(outcome)
    \/ \E completed \in BOOLEAN : gf_metadata(completed)
    \/ \E outcome \in SaveOutcomes : gf_save(outcome)
    \/ \E job_id \in JobIds : get_preview(job_id)
    \/ \E job_id \in JobIds : get_job_status(job_id)
    \/ list_jobs
    \/ \E job_id \in JobIds : download_video(job_id)
    \/ \E constructs \in Constructs : health(constructs)

Spec == Init /\ [][Next]_vars

\* ------------------------------------------------------------------------
\* generate_video_from_image (src/api/video_generation.py)
\* ------------------------------------------------------------------------
\* urls a result video can carry; "" is an empty url
Urls == {"", "url_a", "url_b"}

\* data.task_result.videos of a status response
VideoLists == UNION {[1..n -> Urls] : n \in 0..MaxVideos}

\* data.task_status_msg of a status response; "absent": the key is missing
TaskStatusMsgs == {"absent", "provider message"}

\* a response of requests.post / requests.get; exception: the call raised
\* instead (connection error, timeout) or the body could not be decoded
HttpResponse(exception, status_code, code, task_status, videos, task_status_msg) ==
    [exception |-> exception, status_code |-> status_code, code |-> code,
     task_status |-> task_status, videos |-> videos,
     task_status_msg |-> task_status_msg]

RequestRaised == HttpResponse(TRUE, 0, 0, "", <<>>, "absent")

SubmitResponses ==
    {RequestRaised}
    \cup {HttpResponse(FALSE, sc, c, "", <<>>, "absent") : sc \in {200, 500}, c \in {0, 1}}

StatusResponses ==
    {RequestRaised}
    \cup {HttpResponse(FALSE, 500, 0, "", <<>>, "absent")}
    \cup {HttpResponse(FALSE, 200, 1, "", <<>>, "absent")}
    \cup {HttpResponse(FALSE, 200, 0, ts, <<>>, "absent") : ts \in {"submitted", "processing"}}
    \cup {HttpResponse(FALSE, 200, 0, "succeed", v, "absent") : v \in VideoLists}
    \cup {HttpResponse(FALSE, 200, 0, "failed", <<>>, m) : m \in TaskStatusMsgs}

DownloadResponses ==
    {RequestRaised}
    \cup {HttpResponse(FALSE, sc, 0, "", <<>>, "absent") : sc \in {200, 500}}

\* mutant: the code in the body is not looked at
SubmitRejected_StatusOnly(r) == r.status_code # 200

\* the submission is refused: status_code != 200, or code != 0 in the body
SubmitRejected(r) == r.status_code # 200 \/ r.code # 0

\* mutant: one pass too many
LoopContinues_OffByOne(a) == a <= max_attempts

\* while attempt < max_attempts
LoopContinues(a) == a < max_attempts

\* mutant: the status is compared with another word
IsFailedStatus_Misspelt(task_status) == task_status = "fail"

\* task_status == 'failed'
IsFailedStatus(task_status) == task_status = "failed"

\* mutant: the last listed video is taken
FirstVideoUrl_Last(videos) == videos[Len(videos)]

\* videos[0]['url']
FirstVideoUrl(videos) == videos[1]

\* mutant: every download response is taken for the asset
DownloadRefused_Never(r) == FALSE

\* video_response.status_code != 200
DownloadRefused(r) == r.status_code # 200

\* not video_url
Falsy(url) == url \in {"None", ""}

\* what a status response is, for the record kept in last_status
StatusKind(r) ==
    IF r.exception THEN "exception"
    ELSE IF r.status_code # 200 THEN "non-200"
    ELSE IF r.code # 0 THEN "code error"
    ELSE IF r.task_status = "succeed" THEN "succeed"
    ELSE IF r.task_status = "failed" THEN "failed"
    ELSE "processing"

\* raise Exception(kind: message), re-raised by the except clause
Raise(kind, message) ==
    /\ ppc' = "raised"
    /\ result' = kind
    /\ error_msg' = message

\* the locals of a new call, and the image read before the try block
enter_generate(image, readable) ==
    /\ ppc \in {"idle", "returned", "raised"}
    /\ attempt' = 0
    /\ video_url' = "None"
    /\ status_requests' = 0
    /\ downloads' = 0
    /\ asset_written' = FALSE
    /\ submit_rejected' = FALSE
    /\ last_status' = "none"
    /\ succeed_seen' = FALSE
    /\ succeed_videos' = <<>>
    /\ video_at' = 0
    /\ failed_at' = 0
    /\ failed_msg' = ""
    /\ result_videos' = <<>>
    /\ download_url' = "None"
    /\ download_status' = 0
    /\ IF image = "path" /\ ~readable
       THEN Raise("other exception", "")
       ELSE /\ ppc' = "submit"
            /\ result' = "None"
            /\ error_msg' = ""

\* entry up to the submission: token, headers, image read
generate_video_from_image(image, readable) ==
    /\ enter_generate(image, readable)
    /\ UNCHANGED <<lifeVars, libVars>>

\* requests.post(.../v1/videos/image2video) and the checks of its response
submit(r) ==
    /\ ppc = "submit"
    /\ submit_rejected' = (~r.exception /\ (r.status_code # 200 \/ r.code # 0))
    /\ IF r.exception
       THEN Raise("other exception", "")
       ELSE IF SubmitRejected(r)
       THEN Raise("Kling API error", "")
       ELSE IF LoopContinues(attempt)
       THEN /\ ppc' = "poll"
            /\ UNCHANGED <<result, error_msg>>
       ELSE Raise("Video generation timed out", "")
    /\ UNCHANGED <<attempt, video_url, status_requests, downloads, asset_written,
                   last_status, succeed_seen, succeed_videos, video_at, failed_at,
                   failed_msg, result_videos, download_url, download_status>>
    /\ UNCHANGED <<lifeVars, libVars>>

\* one pass of the while loop: sleep, attempt += 1, the status GET, the
\* branch on its response, the loop test, and after the loop the test of
\* video_url
poll(r) ==
    LET n == status_requests + 1
        reported == ~r.exception /\ r.status_code = 200 /\ r.code = 0
        succeeded == reported /\ r.task_status = "succeed"
        has_video == succeeded /\ Len(r.videos) > 0
        failed == reported /\ ~succeeded /\ IsFailedStatus(r.task_status)
        url == IF has_video THEN FirstVideoUrl(r.videos) ELSE video_url
        message == IF r.task_status_msg = "absent" THEN "Unknown error"
                   ELSE r.task_status_msg
    IN  /\ ppc = "poll"
        /\ attempt' = attempt + 1
        /\ status_requests' = n
        /\ last_status' = StatusKind(r)
        /\ succeed_seen' = (succeed_seen \/ StatusKind(r) = "succeed")
        /\ succeed_videos' = IF ~succeed_seen /\ StatusKind(r) = "succeed"
                             THEN r.videos ELSE succeed_videos
        /\ video_at' = IF has_video THEN n ELSE video_at
        /\ result_videos' = IF has_video THEN r.videos ELSE result_videos
        /\ failed_at' = IF StatusKind(r) = "failed" THEN n ELSE failed_at
        /\ failed_msg' = IF StatusKind(r) = "failed" THEN r.task_status_msg ELSE failed_msg
        /\ video_url' = IF r.exception THEN video_url ELSE url
        /\ IF r.exception
           THEN Raise("other exception", "")
           ELSE IF failed
           THEN Raise("Kling generation failed", message)
           ELSE IF ~has_video /\ LoopContinues(attempt + 1)
           THEN /\ ppc' = "poll"
                /\ UNCHANGED <<result, error_msg>>
           ELSE IF Falsy(url)
           THEN Raise("Video generation timed out", "")
           ELSE /\ ppc' = "download"
                /\ UNCHANGED <<result, error_msg>>
        /\ UNCHANGED <<downloads, asset_written, submit_rejected, download_url,
                       download_status>>
        /\ UNCHANGED <<lifeVars, libVars>>

\* requests.get(video_url), and the asset written on a 200
download(r) ==
    /\ ppc = "download"
    /\ downloads' = downloads + 1
    /\ download_url' = video_url
    /\ download_status' = (IF r.exception THEN 0 ELSE r.status_code)
    /\ IF r.exception
       THEN /\ Raise("other exception", "")
            /\ UNCHANGED asset_written
       ELSE IF DownloadRefused(r)
       THEN /\ Raise("Failed to download video", "")
            /\ UNCHANGED asset_written
       ELSE /\ asset_written' = TRUE
            /\ ppc' = "returned"
            /\ result' = "ok"
            /\ UNCHANGED error_msg
    /\ UNCHANGED <<attempt, video_url, status_requests, submit_rejected,
                   last_status, succeed_seen, succeed_videos, video_at, failed_at,
                   failed_msg, result_videos>>
    /\ UNCHANGED <<lifeVars, libVars>>

PollStep == \E r \in StatusResponses : poll(r)

PollNext ==
    \/ \E image \in {"url", "path"}, readable \in BOOLEAN :
          generate_video_from_image(image, readable)
    \/ \E r \in SubmitResponses : submit(r)
    \/ PollStep
    \/ \E r \in DownloadResponses : download(r)

PollSpec == Init /\ [][PollNext]_vars

\* the thread in generate_video_from_image keeps running: time.sleep returns
\* and every request carries a timeout
FairPollSpec == PollSpec /\ WF_vars(PollStep)

\* ------------------------------------------------------------------------
\* generate-video with generate_video_from_image in line
\* ------------------------------------------------------------------------
\* the handler calls pipe.generate_video_from_image(image_path, ...): the
\* upload it wrote is read
gv_call ==
    /\ pc = "gv_generate"
    /\ enter_generate("path", TRUE)
    /\ pc' = "gv_polling"
    /\ calls' = calls \cup {"kling"}
    /\ UNCHANGED <<pipeline, pipeline_error, jobs, dirs, files, req, resp>>
    /\ UNCHANGED libVars

\* the locals of generate_video_from_image are gone once the call has ended
call_ended ==
    /\ ppc' = "idle"
    /\ attempt' = 0
    /\ video_url' = "None"
    /\ result' = "None"
    /\ error_msg' = ""
    /\ status_requests' = 0
    /\ downloads' = 0
    /\ asset_written' = FALSE
    /\ submit_rejected' = FALSE
    /\ last_status' = "none"
    /\ succeed_seen' = FALSE
    /\ succeed_videos' = <<>>
    /\ video_at' = 0
    /\ failed_at' = 0
    /\ failed_msg' = ""
    /\ result_videos' = <<>>
    /\ download_url' = "None"
    /\ download_status' = 0

\* the call returns the video path to the handler, or its exception reaches
\* the handler's except clause
gv_return ==
    /\ pc = "gv_polling"
    /\ ppc \in {"returned", "raised"}
    /\ IF result = "ok"
       THEN /\ pc' = "gv_copy"
            /\ req' = [req EXCEPT !.video_path = "kling_video"]
            /\ UNCHANGED resp
       ELSE Except(result)
    /\ call_ended
    /\ UNCHANGED <<pipeline, pipeline_error, jobs, dirs, files, calls>>
    /\ UNCHANGED libVars

PreviewNext ==
    \/ \E image \in ImageInputs, motion_prompt \in MotionInputs,
          duration \in {5, 7}, constructs \in Constructs :
          generate_video_preview(image, motion_prompt, duration, constructs)
    \/ gv_call
    \/ \E r \in SubmitResponses : submit(r)
    \/ PollStep
    \/ \E r \in DownloadResponses : download(r)
    \/ gv_return
    \/ \E copied \in BOOLEAN : gv_copy(copied)

PreviewSpec == Init /\ [][PreviewNext]_vars

\* ------------------------------------------------------------------------
\* Script text and _split_script_into_chunks (src/api/video_generation.py)
\* ------------------------------------------------------------------------
\* A text is a sequence of items: a run of n letters, or one character of
\* those the code looks at. A run is never cut: the code cuts a text only at
\* "\n\n", ". " and "|".
Letters(n) == [ch |-> "a", n |-> n]
Char(c) == [ch |-> c, n |-> 1]
Space == Char(" ")
Newline == Char("\n")
Period == Char(".")
Pipe == Char("|")

\* MAX_CHARS of _convert_with_elevenlabs and of _convert_with_openai
MAX_CHARS(with_elevenlabs) == IF with_elevenlabs THEN 4500 ELSE 4000

\* lengths of the runs of letters in the scripts tried
RunLengths == {1, MAX_CHARS(FALSE), MAX_CHARS(TRUE)}

Items == {Space, Newline, Period, Pipe} \cup {Letters(n) : n \in RunLengths}

\* the scripts of at most so many items
Texts(most) == UNION {[1..m -> Items] : m \in 0..most}

\* max_chars tried for the function alone
Budgets == {SmallBudget, MAX_CHARS(FALSE), MAX_CHARS(TRUE)}

\* len(text)
RECURSIVE len(_)
len(text) == IF text = <<>> THEN 0 ELSE Head(text).n + len(Tail(text))

\* str.isspace of one character
IsSpace(item) == item.ch \in {" ", "\n"}

RECURSIVE lstrip(_)
lstrip(text) ==
    IF text # <<>> /\ IsSpace(Head(text)) THEN lstrip(Tail(text)) ELSE text

RECURSIVE rstrip(_)
rstrip(text) ==
    IF text # <<>> /\ IsSpace(text[Len(text)])
    THEN rstrip(SubSeq(text, 1, Len(text) - 1))
    ELSE text

\* text.strip()
strip(text) == rstrip(lstrip(text))

\* text.startswith(prefix)
startswith(text, prefix) ==
    Len(text) >= Len(prefix) /\ SubSeq(text, 1, Len(prefix)) = prefix

\* the rest of text.split(sep) when the piece in hand so far is piece
RECURSIVE split_from(_, _, _)
split_from(text, sep, piece) ==
    IF startswith(text, sep)
    THEN <<piece>> \o split_from(SubSeq(text, Len(sep) + 1, Len(text)), sep, <<>>)
    ELSE IF text = <<>>
    THEN <<piece>>
    ELSE split_from(Tail(text), sep, Append(piece, Head(text)))

\* text.split(sep)
split(text, sep) == split_from(text, sep, <<>>)

\* text.replace(old, new)
RECURSIVE replace(_, _, _)
replace(text, old, new) ==
    IF startswith(text, old)
    THEN new \o replace(SubSeq(text, Len(old) + 1, Len(text)), old, new)
    ELSE IF text = <<>>
    THEN <<>>
    ELSE <<Head(text)>> \o replace(Tail(text), old, new)

\* mutant: the length of the piece to add is not counted
fits_PieceNotCounted(current_chunk, piece, joint, max_chars) ==
    len(current_chunk) + joint <= max_chars

\* len(current_chunk) + len(piece) + joint <= max_chars, joint the length of
\* what is put after the piece (2 for a paragraph, 1 for a sentence)
fits(current_chunk, piece, joint, max_chars) ==
    len(current_chunk) + len(piece) + joint <= max_chars

\* if current_chunk: chunks.append(current_chunk.strip())
append_current(chunks, current_chunk) ==
    IF current_chunk # <<>> THEN Append(chunks, strip(current_chunk)) ELSE chunks

\* for sentence in sentences: ...; chunks and current_chunk after the loop
RECURSIVE sentence_loop(_, _, _, _)
sentence_loop(sentences, chunks, current_chunk, max_chars) ==
    IF sentences = <<>>
    THEN [chunks |-> chunks, current_chunk |-> current_chunk]
    ELSE LET sentence == Head(sentences)
         IN  IF fits(current_chunk, sentence, 1, max_chars)
             THEN sentence_loop(Tail(sentences), chunks,
                                current_chunk \o sentence \o <<Space>>, max_chars)
             ELSE sentence_loop(Tail(sentences), append_current(chunks, current_chunk),
                                sentence \o <<Space>>, max_chars)

\* para.replace('. ', '.|').split('|')
sentences_of(para) == split(replace(para, <<Period, Space>>, <<Period, Pipe>>), <<Pipe>>)

\* for para in paragraphs: ...; chunks and current_chunk after the loop
RECURSIVE paragraph_loop(_, _, _, _)
paragraph_loop(paragraphs, chunks, current_chunk, max_chars) ==
    IF paragraphs = <<>>
    THEN [chunks |-> chunks, current_chunk |-> current_chunk]
    ELSE LET para == Head(paragraphs)
             after == sentence_loop(sentences_of(para),
                                    append_current(chunks, current_chunk), <<>>, max_chars)
         IN  IF fits(current_chunk, para, 2, max_chars)
             THEN paragraph_loop(Tail(paragraphs), chunks,
                                 current_chunk \o para \o <<Newline, Newline>>, max_chars)
             ELSE IF len(para) > max_chars
             THEN paragraph_loop(Tail(paragraphs), after.chunks, after.current_chunk,
                                 max_chars)
             ELSE paragraph_loop(Tail(paragraphs), append_current(chunks, current_chunk),
                                 para \o <<Newline, Newline>>, max_chars)

\* _split_script_into_chunks(script, max_chars)
split_script_into_chunks(script, max_chars) ==
    LET paragraphs == split(script, <<Newline, Newline>>)
        end == paragraph_loop(paragraphs, <<>>, <<>>, max_chars)
    IN  IF strip(end.current_chunk) # <<>>
        THEN Append(end.chunks, strip(end.current_chunk))
        ELSE end.chunks

\* the function is called with a script and a budget
ChunkInit ==
    /\ ServiceInit
    /\ elevenlabs_api_key = TRUE
    /\ script_text \in Texts(MaxItems)
    /\ chunk_budget \in Budgets
    /\ chunk_list = <<>>
    /\ spc = "split"
    /\ temp_files = <<>>
    /\ list_file = <<>>
    /\ disk = {}
    /\ tts_requests = <<>>
    /\ speech_error = "None"
    /\ ffmpeg_runs = 0
    /\ NoCall
    /\ NoRecordIO

\* the call of _split_script_into_chunks
split_call ==
    /\ spc = "split"
    /\ chunk_list' = split_script_into_chunks(script_text, chunk_budget)
    /\ spc' = "chunks returned"
    /\ UNCHANGED <<elevenlabs_api_key, script_text, chunk_budget, temp_files, list_file,
                   disk, tts_requests, speech_error, ffmpeg_runs>>
    /\ UNCHANGED <<lifeVars, pollVars, fnVars, recordVars, commentaryVars>>

ChunkNext == split_call

ChunkSpec == ChunkInit /\ [][ChunkNext]_vars

\* ------------------------------------------------------------------------
\* convert_script_to_speech (src/api/video_generation.py)
\* ------------------------------------------------------------------------
\* paths in output_path.parent
OutputPath == <<"output", 0>>
ChunkPath(i) == <<"chunk", i>>
ListPath == <<"filelist", 0>>

\* a file: audio files hold the texts they speak in order, the list file the
\* paths it names
File(path, content) == [path |-> path, content |-> content]

exists(path) == \E f \in disk : f.path = path

read(path) == (CHOOSE f \in disk : f.path = path).content

\* open(path, 'wb') and write: a file of that path is replaced
written(on_disk, path, content) ==
    {f \in on_disk : f.path # path} \cup {File(path, content)}

\* answers to a TTS request; exception: the request raised (for the OpenAI
\* client an error status is raised too)
TtsResponses ==
    {[exception |-> FALSE, status_code |-> 200],
     [exception |-> FALSE, status_code |-> 429],
     [exception |-> TRUE, status_code |-> 0]}

\* mutant: an error status is not looked at
tts_failed_StatusIgnored(r) == r.exception

\* response.status_code != 200 raises, as does an exception of the request
tts_failed(r) == r.exception \/ r.status_code # 200

\* mutant: the list names the files last to first
filelist_lines_Reversed(paths) ==
    [k \in 1..Len(paths) |-> paths[Len(paths) + 1 - k]]

\* for temp_file in temp_files: f.write(f"file '{temp_file.name}'\n")
filelist_lines(paths) == paths

\* ffmpeg -f concat: the audio of the files the list names, in the list's order
RECURSIVE concat_audio(_)
concat_audio(paths) ==
    IF paths = <<>> THEN <<>> ELSE read(Head(paths)) \o concat_audio(Tail(paths))

\* a call with a script, with or without an ElevenLabs key
SpeechInit ==
    /\ ServiceInit
    /\ elevenlabs_api_key \in BOOLEAN
    /\ script_text \in Texts(MaxItems)
    /\ chunk_budget = 0
    /\ chunk_list = <<>>
    /\ spc = "idle"
    /\ temp_files = <<>>
    /\ list_file = <<>>
    /\ disk = {}
    /\ tts_requests = <<>>
    /\ speech_error = "None"
    /\ ffmpeg_runs = 0
    /\ NoCall
    /\ NoRecordIO

\* entry of _convert_with_elevenlabs / _convert_with_openai up to the test of
\* len(script), and the split of a long script
convert_script_to_speech ==
    /\ spc = "idle"
    /\ IF len(script_text) <= MAX_CHARS(elevenlabs_api_key)
       THEN /\ spc' = "single"
            /\ UNCHANGED <<chunk_budget, chunk_list>>
       ELSE /\ chunk_budget' = MAX_CHARS(elevenlabs_api_key)
            /\ chunk_list' = split_script_into_chunks(script_text,
                                                      MAX_CHARS(elevenlabs_api_key))
            /\ spc' = "chunks"
    /\ UNCHANGED <<elevenlabs_api_key, script_text, temp_files, list_file, disk,
                   tts_requests, speech_error, ffmpeg_runs>>
    /\ UNCHANGED <<lifeVars, pollVars, fnVars, recordVars, commentaryVars>>

\* the single request of a short script, written to output_path
single_request(r) ==
    /\ spc = "single"
    /\ tts_requests' = Append(tts_requests,
                              [text |-> script_text, status_code |-> r.status_code])
    /\ IF tts_failed(r)
       THEN /\ speech_error' = "tts error"
            /\ spc' = "raised"
            /\ UNCHANGED disk
       ELSE /\ disk' = written(disk, OutputPath, <<script_text>>)
            /\ spc' = "returned"
            /\ UNCHANGED speech_error
    /\ UNCHANGED <<elevenlabs_api_key, script_text, chunk_budget, chunk_list,
                   temp_files, list_file, ffmpeg_runs>>
    /\ UNCHANGED <<lifeVars, pollVars, fnVars, recordVars, commentaryVars>>

\* one pass of for i, chunk in enumerate(chunks): the request, the chunk
\* file written, its path appended
chunk_request(r) ==
    LET i == Len(temp_files)
        chunk == chunk_list[i + 1]
    IN  /\ spc = "chunks"
        /\ i < Len(chunk_list)
        /\ tts_requests' = Append(tts_requests,
                                  [text |-> chunk, status_code |-> r.status_code])
        /\ IF tts_failed(r)
           THEN /\ speech_error' = "tts error"
                /\ spc' = "raised"
                /\ UNCHANGED <<disk, temp_files>>
           ELSE /\ disk' = written(disk, ChunkPath(i), <<chunk>>)
                /\ temp_files' = Append(temp_files, ChunkPath(i))
                /\ UNCHANGED <<speech_error, spc>>
        /\ UNCHANGED <<elevenlabs_api_key, script_text, chunk_budget, chunk_list,
                       list_file, ffmpeg_runs>>
        /\ UNCHANGED <<lifeVars, pollVars, fnVars, recordVars, commentaryVars>>

\* after the loop: the list file written, ffmpeg run with check=True, then
\* the chunk files and the list file unlinked
concatenate(ffmpeg_ok) ==
    LET lines == filelist_lines(temp_files)
        listed == written(disk, ListPath, lines)
    IN  /\ spc = "chunks"
        /\ Len(temp_files) = Len(chunk_list)
        /\ list_file' = lines
        /\ ffmpeg_runs' = ffmpeg_runs + 1
        /\ IF ffmpeg_ok
           THEN /\ disk' = {f \in written(listed, OutputPath, concat_audio(lines)) :
                               f.path # ListPath /\ \A k \in 1..Len(temp_files) :
                                                       f.path # temp_files[k]}
                /\ spc' = "returned"
                /\ UNCHANGED speech_error
           ELSE /\ disk' = listed
                /\ speech_error' = "ffmpeg error"
                /\ spc' = "raised"
        /\ UNCHANGED <<elevenlabs_api_key, script_text, chunk_budget, chunk_list,
                       temp_files, tts_requests>>
        /\ UNCHANGED <<lifeVars, pollVars, fnVars, recordVars, commentaryVars>>

SpeechNext ==
    \/ convert_script_to_speech
    \/ \E r \in TtsResponses : single_request(r)
    \/ \E r \in TtsResponses : chunk_request(r)
    \/ \E ffmpeg_ok \in BOOLEAN : concatenate(ffmpeg_ok)

SpeechSpec == SpeechInit /\ [][SpeechNext]_vars

\* ------------------------------------------------------------------------
\* merge_video_audio: the choice of the ffmpeg command
\* ------------------------------------------------------------------------
\* Durations are counted in tenths of a second; 0.5 s in that unit
HalfSecond == 5

abs(x) == IF x < 0 THEN -x ELSE x

\* mutant: a difference of exactly half a second still counts as similar
similar_Inclusive(video_duration, audio_duration) ==
    abs(video_duration - audio_duration) <= HalfSecond

\* abs(video_duration - audio_duration) < 0.5
similar(video_duration, audio_duration) ==
    abs(video_duration - audio_duration) < HalfSecond

\* the branch of merge_video_audio that builds cmd
merge_strategy(video_duration, audio_duration) ==
    IF similar(video_duration, audio_duration)
    THEN "Simple merge"
    ELSE IF audio_duration > video_duration
    THEN "Loop video to match audio length"
    ELSE "Trim video to audio length"


\* merge_video_audio up to the command built
merge_video_audio ==
    /\ call_args.fn = "merge_video_audio"
    /\ call_result = "None"
    /\ call_result' = merge_strategy(call_args.video_duration, call_args.audio_duration)
    /\ UNCHANGED <<call_args, lifeVars, pollVars, speechVars, recordVars, commentaryVars>>

\* ------------------------------------------------------------------------
\* The voice handed to the TTS provider
\* ------------------------------------------------------------------------
\* ELEVENLABS_VOICES: name -> ['id']
ELEVENLABS_VOICES ==
    [george |-> "JBFqnCBsd6RMkjVDRZzb", daniel |-> "onwK4e9ZLuTAKqWW03F9",
     bill |-> "pqHfZKP75CvOlQylNhV4", clyde |-> "2EiwWnXFnvU5JabPnv8n",
     adam |-> "pNInz6obpgDQGcFmaJgB", antoni |-> "ErXwobaYiN019PkySvjV",
     rachel |-> "21m00Tcm4TlvDq8ikWAM", drew |-> "29vD33N1CtxCmqQRPOHJ"]

\* GET /api/voices: 'default'
advertised_default == "george"

\* data.get('voice', 'onyx'): the voice of a request that names none
request_default == "onyx"

\* the voices _convert_with_openai knows
OPENAI_VOICES == {"alloy", "echo", "fable", "onyx", "nova", "shimmer"}

\* the voices tried: every name of the two tables, four with upper-case
\* letters (a voice id among them), and a name in neither table
VoiceNames == DOMAIN ELEVENLABS_VOICES \cup OPENAI_VOICES
                 \cup {"George", "ONYX", "Nova", "JBFqnCBsd6RMkjVDRZzb", "my-cloned-voice"}

\* voice.lower(), for the voices tried
lower(voice) ==
    CASE voice = "George" -> "george"
      [] voice = "ONYX" -> "onyx"
      [] voice = "Nova" -> "nova"
      [] voice = "JBFqnCBsd6RMkjVDRZzb" -> "jbfqncbsd6rmkjvdrzzb"
      [] OTHER -> voice

\* _convert_with_elevenlabs: voice_id
elevenlabs_voice_id(voice) ==
    IF lower(voice) \in DOMAIN ELEVENLABS_VOICES
    THEN ELEVENLABS_VOICES[lower(voice)]
    ELSE voice

\* _convert_with_openai: openai_voice
openai_voice(voice) ==
    IF lower(voice) \in OPENAI_VOICES THEN lower(voice) ELSE "onyx"

\* the function up to the voice it puts in its requests
convert_voice ==
    /\ call_args.fn \in {"_convert_with_elevenlabs", "_convert_with_openai"}
    /\ call_result = "None"
    /\ call_result' = IF call_args.fn = "_convert_with_elevenlabs"
                      THEN elevenlabs_voice_id(call_args.voice)
                      ELSE openai_voice(call_args.voice)
    /\ UNCHANGED <<call_args, lifeVars, pollVars, speechVars, recordVars, commentaryVars>>

\* the seconds on the clock, counted from _generate_jwt_token, as
\* generate_video_from_image sends its requests to Kling: the submission,
\* then up to max_attempts status checks, each after a sleep; a request is
\* answered, or given up, latency seconds after it was sent
timed_request(latency) ==
    LET sent_at == IF call_result.requests = 0
                   THEN call_result.now
                   ELSE call_result.now + poll_sleep
    IN  /\ call_args.fn = "generate_video_from_image"
        /\ call_result.requests < 1 + max_attempts
        /\ call_result' = [requests |-> call_result.requests + 1, sent_at |-> sent_at,
                           now |-> sent_at + latency]
        /\ UNCHANGED <<call_args, lifeVars, pollVars, speechVars, recordVars, commentaryVars>>

\* a function of the pipeline called on its own: merge_video_audio with the
\* two durations ffprobe returned, one of the two TTS functions with a
\* voice, or generate_video_from_image against the clock
CallInit ==
    /\ ServiceInit
    /\ NoSpeech
    /\ \/ /\ \E video_duration \in 0..MaxDuration, audio_duration \in 0..MaxDuration :
                call_args = [fn |-> "merge_video_audio",
                             video_duration |-> video_duration,
                             audio_duration |-> audio_duration]
          /\ call_result = "None"
       \/ /\ \E fn \in {"_convert_with_elevenlabs", "_convert_with_openai"},
                voice \in VoiceNames :
                call_args = [fn |-> fn, voice |-> voice]
          /\ call_result = "None"
       \/ /\ call_args = [fn |-> "generate_video_from_image"]
          /\ call_result = [requests |-> 0, sent_at |-> 0, now |-> 0]
    /\ vc_pc = "not called"
    /\ vc_files = {}
    /\ vc_calls = <<>>
    /\ NoRecordIO

CallNext ==
    \/ merge_video_audio
    \/ convert_voice
    \/ \E latency \in {0, request_timeout} : timed_request(latency)

CallSpec == CallInit /\ [][CallNext]_vars

\* ------------------------------------------------------------------------
\* job.json written by one request while other requests load it. The
\* development server started by app.py (app.run) serves each request in a
\* thread of its own, so a load can fall anywhere between the steps of a
\* write; under gunicorn.conf.py (one worker, one thread) it cannot.
\* ------------------------------------------------------------------------
\* the statuses the handlers write, in the order of the writes
WrittenStatuses == <<"generating_video", "preview_ready", "adding_commentary", "complete">>

\* the write that follows the record on disk (0: none follows)
NextWrite ==
    IF job_file.record = "no job.json" THEN 1
    ELSE LET i == CHOOSE k \in 1..Len(WrittenStatuses) : WrittenStatuses[k] = job_file.record
         IN  IF i < Len(WrittenStatuses) THEN i + 1 ELSE 0

\* open(job_file, 'w'): the file is created or truncated to no bytes
write_open ==
    /\ ~job_file.open
    /\ NextWrite # 0
    /\ job_file' = [record |-> WrittenStatuses[NextWrite], flushed |-> 0, open |-> TRUE]
    /\ UNCHANGED <<load_result, thread_pc, lifeVars, pollVars, speechVars, fnVars, commentaryVars>>

\* json.dump(job_meta, f, indent=2): the buffer fills and a part of the text
\* reaches the file
write_flush ==
    /\ job_file.open
    /\ job_file.flushed < MaxFlushes
    /\ job_file' = [job_file EXCEPT !.flushed = @ + 1]
    /\ UNCHANGED <<load_result, thread_pc, lifeVars, pollVars, speechVars, fnVars, commentaryVars>>

\* leaving the with block: the rest is flushed and the file closed
write_close ==
    /\ job_file.open
    /\ job_file' = [job_file EXCEPT !.open = FALSE]
    /\ UNCHANGED <<load_result, thread_pc, lifeVars, pollVars, speechVars, fnVars, commentaryVars>>

\* job_file.exists(), then json.load(f): a text cut short, the empty one
\* included, is no JSON document
load(reader) ==
    /\ job_file.record # "no job.json"
    /\ load_result' = [load_result EXCEPT ![reader] = IF job_file.open
                                                      THEN "JSONDecodeError"
                                                      ELSE job_file.record]
    /\ UNCHANGED <<job_file, thread_pc, lifeVars, pollVars, speechVars, fnVars, commentaryVars>>

RecordInit == ServiceInit /\ NoSpeech /\ NoCall /\ NoRecordIO

RecordNext ==
    \/ write_open
    \/ write_flush
    \/ write_close
    \/ \E reader \in Readers : load(reader)

RecordSpec == RecordInit /\ [][RecordNext]_vars

\* ------------------------------------------------------------------------
\* add_commentary requests for one job, each in a thread of its own (the
\* server started by app.run); a write of job.json is taken as one step here
\* ------------------------------------------------------------------------
\* json.load(f), then the test of job_meta.get('status')
thread_load(t) ==
    /\ thread_pc[t] = "not sent"
    /\ thread_pc' = [thread_pc EXCEPT ![t] = IF StatusAllowsCommentary(job_file.record)
                                             THEN "status checked"
                                             ELSE "rejected"]
    /\ UNCHANGED <<job_file, load_result, lifeVars, pollVars, speechVars, fnVars, commentaryVars>>

\* job.json rewritten as adding_commentary
thread_write(t) ==
    /\ thread_pc[t] = "status checked"
    /\ job_file' = [job_file EXCEPT !.record = "adding_commentary"]
    /\ thread_pc' = [thread_pc EXCEPT ![t] = "ac_speech"]
    /\ UNCHANGED <<load_result, lifeVars, pollVars, speechVars, fnVars, commentaryVars>>

\* convert_script_to_speech, merge_video_audio, generate_youtube_metadata:
\* one after the other, each ending the request when it raises
thread_stage(t, succeeds) ==
    LET following == [ac_speech |-> "ac_merge", ac_merge |-> "ac_metadata",
                      ac_metadata |-> "ac_save"]
    IN  /\ thread_pc[t] \in DOMAIN following
        /\ thread_pc' = [thread_pc EXCEPT ![t] = IF succeeds THEN following[@]
                                                 ELSE "raised"]
        /\ UNCHANGED <<job_file, load_result, lifeVars, pollVars, speechVars, fnVars, commentaryVars>>

\* job.json rewritten as complete
thread_save(t) ==
    /\ thread_pc[t] = "ac_save"
    /\ job_file' = [job_file EXCEPT !.record = "complete"]
    /\ thread_pc' = [thread_pc EXCEPT ![t] = "returned"]
    /\ UNCHANGED <<load_result, lifeVars, pollVars, speechVars, fnVars, commentaryVars>>

\* the job is at preview_ready and no request for it has come yet
ThreadedInit ==
    /\ ServiceInit
    /\ NoSpeech
    /\ NoCall
    /\ job_file = [record |-> "preview_ready", flushed |-> 0, open |-> FALSE]
    /\ load_result = [r \in Readers |-> "not loaded"]
    /\ thread_pc = [t \in 1..MaxThreads |-> "not sent"]

ThreadedNext ==
    \E t \in 1..MaxThreads :
        \/ thread_load(t)
        \/ thread_write(t)
        \/ \E succeeds \in BOOLEAN : thread_stage(t, succeeds)
        \/ thread_save(t)

ThreadedSpec == ThreadedInit /\ [][ThreadedNext]_vars

\* ------------------------------------------------------------------------
\* Properties of merge_video_audio and of the voice lookup (checked under
\* CallSpec)
\* ------------------------------------------------------------------------
\* C21: for every pair of durations merge_video_audio selects one strategy:
\* the simple merge exactly when the durations differ by less than half a
\* second, else the video loop exactly when the audio is longer, else the
\* trim; a difference of exactly half a second does not select the simple
\* merge.
C21_OneStrategySelected ==
    LET v == call_args.video_duration
        a == call_args.audio_duration
        close == v - a < HalfSecond /\ a - v < HalfSecond
    IN  (call_args.fn = "merge_video_audio" /\ call_result # "None")
           => /\ call_result \in {"Simple merge", "Loop video to match audio length",
                                  "Trim video to audio length"}
              /\ call_result = "Simple merge" <=> close
              /\ call_result = "Loop video to match audio length" <=> (~close /\ a > v)
              /\ call_result = "Trim video to audio length" <=> (~close /\ a <= v)
              /\ (v - a = HalfSecond \/ a - v = HalfSecond) => call_result # "Simple merge"

\* C21 witness: a 10.0 s video and 10.5 s of audio got the video loop
C21_Witness ==
    /\ call_args.fn = "merge_video_audio"
    /\ call_args.video_duration = 100
    /\ call_args.audio_duration = 105
    /\ call_result = "Loop video to match audio length"

\* C30: with either provider a voice found in the provider's table is
\* mapped to the table's entry, and a voice not found in it is handed to the
\* provider unchanged.
C30_VoiceMappedOrPassedUnchanged ==
    LET voice == call_args.voice
    IN  /\ (call_args.fn = "_convert_with_elevenlabs" /\ call_result # "None")
              => call_result = IF lower(voice) \in DOMAIN ELEVENLABS_VOICES
                               THEN ELEVENLABS_VOICES[lower(voice)]
                               ELSE voice
        /\ (call_args.fn = "_convert_with_openai" /\ call_result # "None")
              => call_result = IF lower(voice) \in OPENAI_VOICES
                               THEN lower(voice)
                               ELSE voice

\* ------------------------------------------------------------------------
\* VideoCommentaryPipeline.process_video (src/api/video_commentary.py), run
\* again and again on one video; the artifacts are named without the
\* <video_id>_ they all begin with
\* ------------------------------------------------------------------------
\* process_video up to the making of the working directory
process_video(valid_url, auto_download) ==
    /\ vc_pc \in {"not called", "returned", "raised"}
    /\ call_args' = [fn |-> "process_video", auto_download |-> auto_download]
    /\ vc_calls' = <<>>
    /\ IF valid_url
       THEN vc_pc' = "transcript" /\ call_result' = "None"
       ELSE vc_pc' = "raised" /\ call_result' = "Invalid YouTube URL format"
    /\ UNCHANGED <<vc_files, lifeVars, pollVars, speechVars, recordVars>>

\* mutant: the calls are made whether the artifact is there or not
vc_stage_NotCached(at, next, artifact, made, ok, error) ==
    /\ vc_pc = at
    /\ vc_calls' = vc_calls \o made
    /\ IF ok
       THEN /\ vc_files' = vc_files \cup {artifact}
            /\ vc_pc' = next
            /\ UNCHANGED call_result
       ELSE /\ vc_pc' = "raised"
            /\ call_result' = error
            /\ UNCHANGED vc_files
    /\ UNCHANGED <<call_args, lifeVars, pollVars, speechVars, recordVars>>

\* one step of process_video: its artifact is there and is used, or the
\* calls are made; they give the artifact, or raise error
vc_stage(at, next, artifact, made, ok, error) ==
    /\ vc_pc = at
    /\ IF artifact \in vc_files
       THEN /\ vc_pc' = next
            /\ UNCHANGED <<vc_files, vc_calls, call_result>>
       ELSE /\ vc_calls' = vc_calls \o made
            /\ IF ok
               THEN /\ vc_files' = vc_files \cup {artifact}
                    /\ vc_pc' = next
                    /\ UNCHANGED call_result
               ELSE /\ vc_pc' = "raised"
                    /\ call_result' = error
                    /\ UNCHANGED vc_files
    /\ UNCHANGED <<call_args, lifeVars, pollVars, speechVars, recordVars>>

\* STEP 1: download_transcript
vc_transcript(outcome) ==
    vc_stage("transcript", "script", "transcript.txt",
             <<[to |-> "transcript api", outcome |-> outcome]>>,
             outcome = "ok", "transcript error")

\* mutant: every provider that has a key is called, whatever the others gave
generate_commentary_script_AllCalled(openai, claude, groq) ==
    <<[to |-> "openai", outcome |-> openai]>>
       \o (IF claude = "no key" THEN <<>> ELSE <<[to |-> "claude", outcome |-> claude]>>)
       \o (IF groq = "no key" THEN <<>> ELSE <<[to |-> "groq", outcome |-> groq]>>)

\* generate_commentary_script: the provider calls it makes, given what each
\* provider would answer; Claude and Groq are not called without their key
generate_commentary_script(openai, claude, groq) ==
    <<[to |-> "openai", outcome |-> openai]>>
       \o (IF openai = "ok" THEN <<>>
           ELSE (IF claude = "no key" THEN <<>> ELSE <<[to |-> "claude", outcome |-> claude]>>)
                   \o (IF claude = "ok" \/ groq = "no key" THEN <<>>
                       ELSE <<[to |-> "groq", outcome |-> groq]>>))

\* STEP 2: generate_commentary_script, the script of the first provider that
\* answered
vc_script(openai, claude, groq) ==
    vc_stage("script", "speech", "script.txt",
             generate_commentary_script(openai, claude, groq),
             "ok" \in {openai, claude, groq}, "All AI providers failed")

\* STEP 3: convert_to_speech
vc_speech(outcome) ==
    vc_stage("speech", "download", "commentary.mp3",
             <<[to |-> "tts", outcome |-> outcome]>>, outcome = "ok", "tts error")

\* STEP 4: download_video, when auto_download
vc_download(outcome) ==
    /\ vc_pc = "download"
    /\ IF call_args.auto_download
       THEN vc_stage("download", "merge", "original.mp4",
                     <<[to |-> "yt-dlp", outcome |-> outcome]>>, outcome = "ok",
                     "download error")
       ELSE /\ vc_pc' = "merge"
            /\ UNCHANGED <<vc_files, vc_calls, fnVars, lifeVars, pollVars, speechVars, recordVars>>

\* STEP 6: merge_video_audio, which returns False when ffmpeg failed, and the
\* return of process_video; ffmpeg cannot succeed without the original video
vc_merge(outcome) ==
    /\ vc_pc = "merge"
    /\ outcome = "ok" => "original.mp4" \in vc_files
    /\ IF "final_commentary.mp4" \in vc_files
       THEN UNCHANGED <<vc_files, vc_calls>>
       ELSE /\ vc_calls' = Append(vc_calls, [to |-> "ffmpeg", outcome |-> outcome])
            /\ vc_files' = vc_files \cup (IF outcome = "ok"
                                          THEN {"final_commentary.mp4"} ELSE {})
    /\ vc_pc' = "returned"
    /\ call_result' = [success |-> TRUE]
    /\ UNCHANGED <<call_args, lifeVars, pollVars, speechVars, recordVars>>

CommentaryNext ==
    \/ \E valid_url \in BOOLEAN, auto_download \in BOOLEAN :
          process_video(valid_url, auto_download)
    \/ \E outcome \in {"ok", "error"} : vc_transcript(outcome)
    \/ \E openai \in {"ok", "error"}, claude \in {"ok", "error", "no key"},
          groq \in {"ok", "error", "no key"} : vc_script(openai, claude, groq)
    \/ \E outcome \in {"ok", "error"} : vc_speech(outcome)
    \/ \E outcome \in {"ok", "error"} : vc_download(outcome)
    \/ \E outcome \in {"ok", "error"} : vc_merge(outcome)

CommentarySpec == Init /\ [][CommentaryNext]_vars

\* ------------------------------------------------------------------------
\* Properties of process_video (checked under CommentarySpec)
\* ------------------------------------------------------------------------
\* C35: a stage of process_video whose artifact is on disk makes no external
\* call and leaves the artifact as it is, for the transcript, the script,
\* the speech audio, the original video and the final video; so a run that
\* finds all five makes no call at all.
C35_CachedStageMakesNoCall ==
    [][LET artifact == [transcript |-> "transcript.txt", script |-> "script.txt",
                        speech |-> "commentary.mp3", download |-> "original.mp4",
                        merge |-> "final_commentary.mp4"]
       IN  (vc_pc \in DOMAIN artifact /\ artifact[vc_pc] \in vc_files)
              => /\ vc_calls' = vc_calls
                 /\ vc_files' = vc_files
                 /\ vc_pc' # "raised"]_vars

\* C35 witness: a run that found all five artifacts returned without a call
C35_Witness ==
    /\ vc_pc = "returned"
    /\ vc_calls = <<>>
    /\ vc_files = {"transcript.txt", "script.txt", "commentary.mp3", "original.mp4",
                   "final_commentary.mp4"}

\* C36: generate_commentary_script calls OpenAI first, then Claude, then
\* Groq; every call but the last one made has failed, a successful call is
\* the last and gives the script, and 'All AI providers failed' is raised
\* only when no call succeeded.
C36_ProvidersTriedInOrder ==
    LET rank == [openai |-> 1, claude |-> 2, groq |-> 3]
        made == SelectSeq(vc_calls, LAMBDA c : c.to \in DOMAIN rank)
    IN  /\ Len(made) > 0 => made[1].to = "openai"
        /\ \A i \in 1..(Len(made) - 1) :
              /\ made[i].outcome = "error"
              /\ rank[made[i].to] < rank[made[i + 1].to]
        /\ (\E i \in 1..Len(made) : made[i].outcome = "ok") => "script.txt" \in vc_files
        /\ (vc_pc = "raised" /\ call_result = "All AI providers failed")
              => /\ Len(made) > 0
                 /\ \A i \in 1..Len(made) : made[i].outcome = "error"

\* C36 witness: OpenAI and Claude failed and Groq gave the script
C36_Witness ==
    /\ Len(vc_calls) = 4
    /\ vc_calls[2] = [to |-> "openai", outcome |-> "error"]
    /\ vc_calls[3] = [to |-> "claude", outcome |-> "error"]
    /\ vc_calls[4] = [to |-> "groq", outcome |-> "ok"]
    /\ "script.txt" \in vc_files

\* C37: process_video returns success true only with the final commentary
\* video in the output directory.
C37_SuccessMeansFinalVideo ==
    (vc_pc = "returned" /\ call_result.success)
       => "final_commentary.mp4" \in vc_files

\* ------------------------------------------------------------------------
\* Properties of add_commentary requests served in threads (checked under
\* ThreadedSpec)
\* ------------------------------------------------------------------------
\* C32: of the add_commentary requests for one preview_ready job, however
\* their steps interleave, at most one gets past the status check and runs
\* synthesis and merge.
C32_AtMostOneNarration ==
    Cardinality({t \in 1..MaxThreads :
                    thread_pc[t] \notin {"not sent", "rejected"}}) <= 1

\* C34: the voice a request without a voice is served with is the default
\* the voices endpoint advertises, and ElevenLabs, the provider that
\* endpoint names, finds it in its table instead of taking it as a raw id.
C34_DefaultVoiceIsAdvertisedOne ==
    (/\ call_args.fn = "_convert_with_elevenlabs"
     /\ call_args.voice = request_default
     /\ call_result # "None")
       => /\ request_default = advertised_default
          /\ lower(request_default) \in DOMAIN ELEVENLABS_VOICES
          /\ call_result = ELEVENLABS_VOICES[lower(advertised_default)]

\* C39: every request generate_video_from_image sends to Kling, the
\* submission and each status check, is sent before the token made at the
\* start of the call expires, whatever the latencies of the requests before
\* it, none above the request timeout.
C39_TokenValidAtEveryRequest ==
    (call_args.fn = "generate_video_from_image" /\ call_result.requests > 0)
       => call_result.sent_at < token_lifetime

\* ------------------------------------------------------------------------
\* Properties of the job record file (checked under RecordSpec)
\* ------------------------------------------------------------------------
\* C25: a handler that loads job.json while another request rewrites it
\* gets the whole old record or the whole new one, never an empty or a
\* partly written text.
C25_LoadSeesWholeRecord ==
    \A reader \in Readers : load_result[reader] # "JSONDecodeError"

\* ------------------------------------------------------------------------
\* Properties of _split_script_into_chunks (checked under ChunkSpec)
\* ------------------------------------------------------------------------
\* sub occurs in text
contains(text, sub) ==
    \E i \in 1..(Len(text) - Len(sub) + 1) : SubSeq(text, i, i + Len(sub) - 1) = sub

\* a sentence, or a paragraph without a sentence delimiter: a piece of the
\* script that holds no ". " and no paragraph break
IsUnsplitPiece(chunk, whole) ==
    /\ contains(whole, chunk)
    /\ ~contains(chunk, <<Period, Space>>)
    /\ ~contains(chunk, <<Newline, Newline>>)

RECURSIVE joined(_)
joined(texts) == IF texts = <<>> THEN <<>> ELSE Head(texts) \o joined(Tail(texts))

NotSpace(item) == ~IsSpace(item)

\* the characters of a text that are not whitespace, in order
non_whitespace(text) == SelectSeq(text, NotSpace)

\* C15: the chunks returned by _split_script_into_chunks, joined in order,
\* hold the non-whitespace characters of the script, a literal "|" included,
\* in their order: none is dropped, added or moved.
C15_ChunksReproduceText ==
    spc = "chunks returned"
       => non_whitespace(joined(chunk_list)) = non_whitespace(script_text)

\* C38: _split_script_into_chunks never returns an empty or whitespace-only
\* chunk, whatever the text (leading or consecutive paragraph breaks
\* included) and whatever max_chars > 0.
C38_NoEmptyChunk ==
    spc = "chunks returned"
       => \A i \in 1..Len(chunk_list) : non_whitespace(chunk_list[i]) # <<>>

\* ------------------------------------------------------------------------
\* Properties of convert_script_to_speech (checked under SpeechSpec)
\* ------------------------------------------------------------------------
\* the script went the chunked way
Chunked == chunk_budget # 0

\* the texts of the requests sent so far
requested_texts == [k \in 1..Len(tts_requests) |-> tts_requests[k].text]

\* the chunk files in chunk order
chunk_paths == [k \in 1..Len(chunk_list) |-> ChunkPath(k - 1)]

\* C16: in chunked synthesis the TTS requests are the chunks in chunk order,
\* one each; the concat list names the chunk files in that order; and the
\* output written is the audio of chunk 0, chunk 1, ... in sequence, none
\* missing, repeated or out of place.
C16_ChunkOrderKept ==
    Chunked
       => /\ Len(tts_requests) <= Len(chunk_list)
          /\ requested_texts = SubSeq(chunk_list, 1, Len(tts_requests))
          /\ ffmpeg_runs > 0
                => /\ ffmpeg_runs = 1
                   /\ Len(tts_requests) = Len(chunk_list)
                   /\ list_file = chunk_paths
          /\ spc = "returned"
                => /\ ffmpeg_runs = 1
                   /\ exists(OutputPath)
                   /\ read(OutputPath) = chunk_list

\* C16 witness: a script of three different chunks was synthesized
C16_Witness ==
    /\ Chunked
    /\ spc = "returned"
    /\ Len(chunk_list) = 3
    /\ chunk_list[1] # chunk_list[2]
    /\ chunk_list[2] # chunk_list[3]
    /\ read(OutputPath) = chunk_list

\* C17: when a TTS request fails the call raises that error: the failed
\* request is the last one sent, no concatenation is run, and nothing is at
\* the output path.
C17_TtsFailureAborts ==
    \A k \in 1..Len(tts_requests) :
       tts_requests[k].status_code # 200
          => /\ k = Len(tts_requests)
             /\ spc = "raised"
             /\ speech_error = "tts error"
             /\ ffmpeg_runs = 0
             /\ list_file = <<>>
             /\ ~exists(OutputPath)
             /\ ~exists(ListPath)

\* C17 witness: the request of the second of three chunks was answered with an
\* error status
C17_Witness ==
    /\ Chunked
    /\ Len(chunk_list) = 3
    /\ Len(tts_requests) = 2
    /\ tts_requests[2].status_code = 429
    /\ spc = "raised"

\* C18: when synthesis has ended, by success or by a failure, no chunk file
\* and no concat list file is left on disk.
C18_NoTempFilesRemain ==
    spc \in {"returned", "raised"} => \A f \in disk : f.path = OutputPath

\* C19: no TTS request carries a text longer than the provider's MAX_CHARS.
C19_RequestsWithinLimit ==
    \A k \in 1..Len(tts_requests) :
       len(tts_requests[k].text) <= MAX_CHARS(elevenlabs_api_key)

\* C20: a script longer than MAX_CHARS is split into at least two chunks, and
\* its synthesis, when it returns, has sent at least two TTS requests and
\* written the one concatenated output file.
C20_LongScriptGetsTwoChunks ==
    (len(script_text) > MAX_CHARS(elevenlabs_api_key) /\ spc # "idle")
       => /\ Len(chunk_list) >= 2
          /\ spc = "returned"
                => /\ Len(tts_requests) >= 2
                   /\ ffmpeg_runs = 1
                   /\ exists(OutputPath)

\* ------------------------------------------------------------------------
\* Properties of generate-video with the call in line (checked under
\* PreviewSpec)
\* ------------------------------------------------------------------------
\* C11, the part a state of the call shows: a download request was sent only
\* after a status response reported succeed with a result url, for that url;
\* a download answered non-200 has raised "Failed to download video" and
\* written no asset.
C11_Call ==
    /\ (downloads > 0 \/ download_url # "None")
          => /\ succeed_seen
             /\ video_at # 0
             /\ download_url \notin {"None", ""}
             /\ download_url = result_videos[1]
    /\ download_status \notin {0, 200}
          => /\ ppc = "raised"
             /\ result = "Failed to download video"
             /\ result \notin {"Kling generation failed", "Video generation timed out"}
             /\ ~asset_written
    /\ asset_written => download_status = 200

\* C11: the asset download is attempted only after a status response reported
\* success with a result url; a download answered with a non-2xx status raises
\* "Failed to download video", an error other than the generation-failed and
\* the timed-out error, writes no asset file, and the handler answers 500 with
\* that error leaving the job's record (generating_video, not preview_ready)
\* and its files as they were.
C11_DownloadFailureIsTerminal ==
    /\ []C11_Call
    /\ [][(pc = "gv_polling" /\ pc' # "gv_polling" /\ download_status \notin {0, 200})
             => /\ pc' = "idle"
                /\ resp'.op = "generate_video_preview"
                /\ resp'.code = 500
                /\ resp'.error = "Failed to download video"
                /\ jobs' = jobs
                /\ jobs'[req.job_id].status = "generating_video"
                /\ files' = files]_vars

\* C11 witness: the handler answered the failed download and the job is not
\* preview_ready
C11_Witness ==
    /\ pc = "idle"
    /\ resp.op = "generate_video_preview"
    /\ resp.error = "Failed to download video"
    /\ \E j \in JobIds : jobs[j].status = "generating_video"

\* ------------------------------------------------------------------------
\* Properties of the request handlers (checked under Spec)
\* ------------------------------------------------------------------------
\* the step is add_commentary taking up a request that names job j
AddCommentaryOn(j) ==
    /\ pc = "idle"
    /\ \/ pc' = "idle" /\ resp'.op = "add_commentary" /\ resp'.job_id = j
       \/ pc' = "ac_speech" /\ req'.job_id = j

\* C1: a job's persisted record comes to hold the status adding_commentary
\* only by a step of add_commentary that read the status preview_ready for
\* that job; add_commentary goes past its status check only for a job whose
\* persisted status is preview_ready.
C1_CommentaryOnlyFromPreviewReady ==
    [][\A j \in JobIds :
          /\ (jobs'[j] # jobs[j] /\ jobs'[j].status = "adding_commentary")
                => /\ jobs[j].status = "preview_ready"
                   /\ AddCommentaryOn(j)
                   /\ pc' = "ac_speech"
          /\ (AddCommentaryOn(j) /\ pc' = "ac_speech")
                => /\ jobs[j].status = "preview_ready"
                   /\ jobs'[j].status = "adding_commentary"]_vars

\* C1 witness: add_commentary has just moved a job into adding_commentary
C1_Witness ==
    /\ pc = "ac_speech"
    /\ req.op = "add_commentary"
    /\ jobs[req.job_id].status = "adding_commentary"

\* C2: once a job's persisted status is complete or failed, no step changes
\* the job's record.
C2_TerminalRecordNeverChanges ==
    [][\A j \in JobIds :
          jobs[j].status \in {"complete", "failed"} => jobs'[j] = jobs[j]]_vars

\* the handler of generate-video ends in its except clause after job.json
\* was written
GenerateVideoFails ==
    /\ pc \in {"gv_generate", "gv_copy"}
    /\ pc' = "idle"
    /\ resp'.code = 500

\* C3: when generate-video fails after the job record was persisted, the
\* record's status becomes failed and the error is returned to the caller.
C3_GenerateFailureMarksFailed ==
    [][GenerateVideoFails
          => /\ jobs'[req.job_id].status = "failed"
             /\ resp'.op = "generate_video_preview"
             /\ resp'.error \in (GenerateOutcomes \ {"ok"}) \cup {"copy failed"}]_vars

\* a stage of add_commentary raises after adding_commentary was written
CommentaryFails ==
    /\ pc \in {"ac_speech", "ac_merge", "ac_metadata", "ac_save"}
    /\ pc' = "idle"
    /\ resp'.code = 500

\* C4: when a stage of add_commentary fails after the job entered
\* adding_commentary, the record's status becomes failed and the error is
\* returned to the caller.
C4_CommentaryFailureMarksFailed ==
    [][CommentaryFails
          => /\ jobs'[req.job_id].status = "failed"
             /\ resp'.op = "add_commentary"
             /\ resp'.error # ""]_vars

\* C5: add_commentary for a job that has a record whose status is not
\* preview_ready ends in that step with an error, having made no TTS, probe,
\* merge or text-completion call and having changed no record, artifact or
\* directory; the error names the status read, unless the request was turned
\* away before the record was loaded (no script, or no pipeline).
C5_NotPreviewReadyRejected ==
    [][\A j \in JobIds :
          (AddCommentaryOn(j) /\ jobs[j] # NoRecord /\ jobs[j].status # "preview_ready")
             => /\ pc' = "idle"
                /\ resp'.op = "add_commentary"
                /\ calls' = {}
                /\ jobs' = jobs
                /\ files' = files
                /\ dirs' = dirs
                /\ \/ /\ resp'.code = 400
                      /\ resp'.error = "Job not ready for commentary"
                      /\ resp'.status = jobs[j].status
                   \/ resp'.code = 400 /\ resp'.error = "No script provided"
                   \/ resp'.code = 500 /\ resp'.error = "Pipeline not available"]_vars

\* C5 witness: add_commentary on a complete job was answered with the status
C5_Witness ==
    /\ pc = "idle"
    /\ resp.op = "add_commentary"
    /\ resp.error = "Job not ready for commentary"
    /\ resp.job_id \in JobIds
    /\ resp.status = "complete"
    /\ jobs[resp.job_id].status = "complete"

\* C12: generate-video handling a request for a job whose preview.mp4 exists
\* on disk makes no submission to the video service and answers with that
\* job's existing preview.
C12_ExistingPreviewIsReused ==
    [][(pc = "gv_generate" /\ "preview.mp4" \in files[req.job_id])
          => /\ "kling" \notin calls'
             /\ pc' = "idle"
             /\ resp'.code = 200
             /\ resp'.job_id = req.job_id
             /\ resp'.status = "preview_ready"]_vars

\* C13: add_commentary re-invoked with a script for a job whose commentary
\* stage failed (its record was left at adding_commentary) is accepted; and a
\* speech stage running for a job that has commentary.mp3 on disk makes no TTS
\* call.
C13_FailedStageCanBeRetried ==
    [][/\ \A j \in JobIds :
             (/\ AddCommentaryOn(j)
              /\ jobs[j].status = "adding_commentary"
              /\ resp'.error \notin {"No script provided", "Pipeline not available"})
                => pc' = "ac_speech"
       /\ (pc = "ac_speech" /\ "commentary.mp3" \in files[req.job_id])
             => "tts" \notin calls']_vars

\* C22: a request rejected for a validation error (400 from one of the two
\* creating handlers) has made no remote call, written no file and created
\* no job directory or record by the time it is rejected.
C22_RejectedBeforeAnyEffect ==
    [][(/\ pc = "idle"
        /\ resp'.op \in {"generate_video_preview", "generate_full"}
        /\ resp'.code = 400)
          => (calls' = {} /\ UNCHANGED <<jobs, dirs, files>>)]_vars

C24_LegacyCallLeavesJobRecord ==
    /\ (resp.op = "generate_full" /\ resp.code = 200)
          => /\ jobs[resp.job_id].status = "complete"
             /\ "preview.mp4" \in files[resp.job_id]
             /\ resp.job_id \in ListedJobs
    /\ (resp.op = "generate_full" /\ resp.code = 500 /\ "kling" \in calls)
          => \E j \in dirs : jobs[j].status = "failed"

\* C26: a request that creates a job gets an id no existing job has: it
\* takes no job directory that is already there and overwrites no record or
\* artifact of another job.
C26_NewJobIdIsFresh ==
    [][(pc = "idle" /\ pc' \in {"gv_generate", "gf_motion"})
          => /\ req'.job_id \notin dirs
             /\ jobs[req'.job_id] = NoRecord
             /\ files[req'.job_id] = {}]_vars

\* C27: a failure in any stage of add_commentary leaves preview.mp4 in the
\* job directory and preview_path in the record as they were, and
\* GET /api/preview for a job left by such a failure still answers 200.
C27_CommentaryFailureKeepsPreview ==
    [][/\ CommentaryFails
          => /\ "preview.mp4" \in files[req.job_id]
             /\ files'[req.job_id] \cap {"preview.mp4"} = files[req.job_id] \cap {"preview.mp4"}
             /\ jobs[req.job_id].preview_path = "preview.mp4"
             /\ jobs'[req.job_id].preview_path = jobs[req.job_id].preview_path
       /\ (/\ pc = "idle"
           /\ resp'.op = "get_preview"
           /\ jobs[resp'.job_id].status = "adding_commentary")
          => resp'.code = 200]_vars

\* C27 witness: the preview of a job whose commentary stage failed was
\* served
C27_Witness ==
    /\ pc = "idle"
    /\ resp.op = "get_preview"
    /\ resp.code = 200
    /\ jobs[resp.job_id].status = "adding_commentary"
    /\ jobs[resp.job_id].preview_path = "preview.mp4"

\* C28: whenever a job's record says complete, its directory holds
\* final_video.mp4, commentary.mp3, script.txt and metadata.json and the
\* record carries final_video, audio_path and metadata.
C28_CompleteHasAllArtifacts ==
    \A j \in JobIds :
        jobs[j].status = "complete"
           => /\ {"final_video.mp4", "commentary.mp3", "script.txt", "metadata.json"}
                    \subseteq files[j]
              /\ jobs[j].final_video = "final_video.mp4"
              /\ jobs[j].audio_path = "commentary.mp3"
              /\ jobs[j].metadata = "metadata"

\* C28 witness: add_commentary has just answered with a complete job
C28_Witness ==
    /\ resp.op = "add_commentary"
    /\ resp.code = 200
    /\ jobs[resp.job_id].status = "complete"
    /\ "metadata.json" \in files[resp.job_id]

\* C29: a job's first record has status created, and every later change of
\* the status moves one step forward along created, generating_video,
\* preview_ready, adding_commentary, complete, or from one of the first four
\* to failed.
C29_StatusMovesOneStepForward ==
    [][LET order == <<"created", "generating_video", "preview_ready",
                      "adding_commentary", "complete">>
           step(from, to) ==
               \E i \in 1..(Len(order) - 1) : from = order[i] /\ to = order[i + 1]
           fails(from, to) ==
               to = "failed" /\ \E i \in 1..(Len(order) - 1) : from = order[i]
       IN  \A j \in JobIds :
              jobs'[j].status # jobs[j].status
                 => IF jobs[j] = NoRecord
                    THEN jobs'[j].status = "created"
                    ELSE step(jobs[j].status, jobs'[j].status)
                            \/ fails(jobs[j].status, jobs'[j].status)]_vars

\* C31: a request accepted without a motion prompt gets one from the text
\* completion before anything is submitted to the video service: the
\* submission is made only with a motion prompt, the derivation step makes
\* the completion call and no submission, and when it fails the request
\* ends with an error and no submission made.
C31_MotionPromptDerivedBeforeSubmission ==
    [][/\ ("kling" \in calls' /\ "kling" \notin calls) => req.motion_prompt # ""
       /\ (pc = "gf_motion" /\ req.motion_prompt = "")
             => /\ "completion" \in calls'
                /\ "kling" \notin calls'
                /\ \/ pc' = "gf_generate" /\ req'.motion_prompt # ""
                   \/ pc' = "idle" /\ resp'.code = 500]_vars

\* C31 witness: the legacy call, made without a motion prompt, has submitted
\* with the prompt the completion gave
C31_Witness ==
    /\ pc = "gf_speech"
    /\ req.motion_prompt = "generated prompt"
    /\ {"completion", "kling"} \subseteq calls

\* C33: within add_commentary ffmpeg is run only after the synthesis and the
\* probes were made in this request, the metadata completion only after the
\* merge wrote final_video.mp4, the artifacts are saved only after the
\* completion, and a request that ends in the merge stage leaves no record
\* newly complete.
C33_CommentaryStagesInOrder ==
    [][req.op = "add_commentary"
          => /\ ("ffmpeg" \in calls' /\ "ffmpeg" \notin calls)
                   => /\ pc = "ac_merge"
                      /\ "tts" \in calls
                      /\ "commentary.mp3" \in files[req.job_id]
                      /\ "probe" \in calls'
             /\ ("completion" \in calls' /\ "completion" \notin calls)
                   => /\ pc = "ac_metadata"
                      /\ {"tts", "probe", "ffmpeg"} \subseteq calls
                      /\ "final_video.mp4" \in files[req.job_id]
             /\ files'[req.job_id] # files[req.job_id] /\ pc = "ac_save"
                   => {"tts", "probe", "ffmpeg", "completion"} \subseteq calls
             /\ (pc = "ac_merge" /\ pc' = "idle")
                   => /\ resp'.code = 500
                      /\ "completion" \notin calls'
                      /\ jobs'[req.job_id].status # "complete"]_vars

\* C33 witness: add_commentary completed after all four stages had been run
C33_Witness ==
    /\ resp.op = "add_commentary"
    /\ resp.status = "complete"
    /\ calls = {"tts", "probe", "ffmpeg", "completion"}

\* C40: get_pipeline never holds both a pipeline and a pipeline_error; a
\* pipeline once constructed is kept and not constructed again; after one
\* failed construction every later call leaves the error stored and returns
\* no pipeline, and every pipeline-backed endpoint answers 500 "Pipeline not
\* available".
C40_PipelineConstructedOnce ==
    [][/\ ~(pipeline' # "None" /\ pipeline_error' # "None")
       /\ pipeline = "pipeline" => pipeline' = "pipeline"
       /\ pipeline_error = "error"
             => /\ pipeline' = "None"
                /\ pipeline_error' = "error"
                /\ resp'.op \in {"generate_video_preview", "add_commentary", "generate_full"}
                      => resp'.code = 500 /\ resp'.error = "Pipeline not available"]_vars

\* C40 witness: with the error of a failed construction stored, add_commentary
\* has answered 500 "Pipeline not available"
C40_Witness ==
    /\ pipeline = "None"
    /\ pipeline_error = "error"
    /\ resp.op = "add_commentary"
    /\ resp.code = 500
    /\ resp.error = "Pipeline not available"

\* ------------------------------------------------------------------------
\* Properties of generate_video_from_image (checked under PollSpec and
\* FairPollSpec)
\* ------------------------------------------------------------------------
\* C6, the part a state shows: never more than max_attempts status requests;
\* in the loop an attempt is left; and when all max_attempts requests were
\* answered and no answer carried a result video or reported failed, the call
\* has raised the timed-out error and sent no download request.
C6_Safety ==
    /\ status_requests <= max_attempts
    /\ attempt = status_requests
    /\ ppc = "poll" => attempt < max_attempts
    /\ (/\ status_requests = max_attempts
        /\ last_status # "exception"
        /\ video_at = 0
        /\ failed_at = 0)
          => /\ ppc = "raised"
             /\ result = "Video generation timed out"
             /\ downloads = 0
             /\ ~asset_written

C7_TransientFailureOnlyUsesAttempt ==
    [][(/\ ppc = "poll"
        /\ status_requests' = status_requests + 1
        /\ last_status' \in {"exception", "non-200"})
          => /\ attempt' = attempt + 1
             /\ attempt' < max_attempts => ppc' = "poll"
             /\ ppc' = "raised" => result' = "Video generation timed out"]_vars

\* C8 as stated: after the first status response that reports succeed the
\* loop has ended, and a download asks for the first listed video of that
\* response.
C8_FirstSucceedEndsLoop ==
    succeed_seen
       => /\ ppc # "poll"
          /\ download_url # "None"
                => Len(succeed_videos) > 0 /\ download_url = succeed_videos[1]

\* C8 amended: the status response that reports succeed and lists at least
\* one result video ends the loop: no status request follows it, and a
\* download asks for the first listed video of that response; with an empty
\* url in that place no download is sent and the call raises the timed-out
\* error.
C8_SucceedWithVideoEndsLoop ==
    /\ video_at # 0
          => /\ status_requests = video_at
             /\ ppc # "poll"
             /\ Len(result_videos) > 0
             /\ video_url = result_videos[1]
             /\ download_url \in {"None", result_videos[1]}
             /\ ppc = "returned" => download_url = result_videos[1]
             /\ result_videos[1] = ""
                   => /\ ppc = "raised"
                      /\ result = "Video generation timed out"
                      /\ downloads = 0
    /\ download_url # "None" => video_at # 0

\* C8 witness: after earlier answers a succeed response listing two different
\* videos ended the loop and the asset was downloaded
C8_Witness ==
    /\ ppc = "returned"
    /\ video_at > 1
    /\ Len(result_videos) = 2
    /\ result_videos[1] # result_videos[2]
    /\ download_url = result_videos[1]

\* C9: a status response that reports failed ends the loop with the error
\* "Kling generation failed" carrying the provider's message: no status
\* request and no download follows it.
C9_FailedEndsLoop ==
    failed_at # 0
       => /\ ppc = "raised"
          /\ result = "Kling generation failed"
          /\ error_msg = (IF failed_msg = "absent" THEN "Unknown error" ELSE failed_msg)
          /\ status_requests = failed_at
          /\ downloads = 0
          /\ download_url = "None"
          /\ ~asset_written

\* C9 witness: after earlier answers a response reported failed with a message
C9_Witness ==
    /\ failed_at > 1
    /\ failed_msg = "provider message"
    /\ error_msg = "provider message"

\* C10: a submission answered non-200, or 200 with code != 0, ends the call
\* with "Kling API error": no status request, no download and no asset write
\* follows.
C10_RejectedSubmissionEndsCall ==
    submit_rejected
       => /\ ppc = "raised"
          /\ result = "Kling API error"
          /\ status_requests = 0
          /\ attempt = 0
          /\ downloads = 0
          /\ download_url = "None"
          /\ ~asset_written

\* C10 witness: a submission was refused
C10_Witness ==
    /\ submit_rejected
    /\ ppc = "raised"
    /\ result = "Kling API error"

====
